---- MODULE Spec2Model ----
(***************************************************************************)
(* A model of the MANY module plane of many-rs:                            *)
(*   - many-macros/src/lib.rs: the validate/execute pair that the          *)
(*     #[many_module] macro generates for a trait of endpoints, and the    *)
(*     std::sync::Mutex that guards the backend;                           *)
(*   - many/src/server/module/_3_kvstore.rs: the KvStore module;           *)
(*   - many-cli/src/main.rs: show_response, the client's handling of a     *)
(*     response and its polling of async.status.                           *)
(***************************************************************************)
EXTENDS Integers, Sequences, FiniteSets, TLC

VARIABLES
    module,   \* the trait the macro was applied to (fixed after construction)
    mutex,    \* self.backend: Arc<Mutex<T>>: holder and poison flag
    backend,  \* the backend T seen from outside: how many method calls it received
    task,     \* per caller: where its validate/execute call stands
    cli       \* the many command line client running show_response

vars == <<module, mutex, backend, task, cli>>

(***************************************************************************)
(* Bounds of the model.                                                    *)
(***************************************************************************)
\* Backend calls after which no further execute is started.
MaxCalls == 3
\* Callers that run execute concurrently in SpecConc and SpecExec.
NTasks == 2
\* Times an async backend method suspends during one call.
MaxAwaits == 1

(***************************************************************************)
(* Identifiers and camelCase.  A name is a sequence of one-character       *)
(* strings, so that to_camel_case is computed and not assumed.             *)
(***************************************************************************)
LowerSeq == <<"a","b","c","d","e","f","g","h","i","j","k","l","m",
              "n","o","p","q","r","s","t","u","v","w","x","y","z">>
UpperSeq == <<"A","B","C","D","E","F","G","H","I","J","K","L","M",
              "N","O","P","Q","R","S","T","U","V","W","X","Y","Z">>

ToUpper(c) ==
    IF \E i \in 1..Len(LowerSeq) : LowerSeq[i] = c
    THEN UpperSeq[CHOOSE i \in 1..Len(LowerSeq) : LowerSeq[i] = c]
    ELSE c

\* inflections::Inflect::to_camel_case on a snake_case identifier: the
\* underscores go, the letter after one is capitalised, the first stays.
RECURSIVE CamelFrom(_, _, _)
CamelFrom(s, i, up) ==
    IF i > Len(s) THEN <<>>
    ELSE IF s[i] = "_" THEN CamelFrom(s, i + 1, TRUE)
    ELSE <<(IF up THEN ToUpper(s[i]) ELSE s[i])>> \o CamelFrom(s, i + 1, FALSE)

RECURSIVE SkipUnderscores(_, _)
SkipUnderscores(s, i) ==
    IF i <= Len(s) /\ s[i] = "_" THEN SkipUnderscores(s, i + 1) ELSE i

to_camel_case(s) == CamelFrom(s, SkipUnderscores(s, 1), FALSE)

NoNamespace == <<>>

\* format!("{}.{}", namespace, name), or the bare name without a namespace.
EndpointName(namespace, e) ==
    IF namespace = NoNamespace
    THEN to_camel_case(e.name)
    ELSE namespace \o <<".">> \o to_camel_case(e.name)

(***************************************************************************)
(* Identities and options.                                                 *)
(***************************************************************************)
Anonymous == "anonymous"
ServerIdentity == "server"
Identities == {Anonymous, ServerIdentity, "alice"}

\* Option<Identity>: message.from.
NoIdentity == "None"
OptIdentities == Identities \cup {NoIdentity}
unwrap_or_default(o) == IF o = NoIdentity THEN Anonymous ELSE o
is_anonymous(i) == i = Anonymous

\* Option<u64>: message.id.
NoId == [some |-> FALSE, v |-> 0]
SomeId(n) == [some |-> TRUE, v |-> n]
OptIds == {NoId, SomeId(7)}

(***************************************************************************)
(* CBOR, as far as the endpoints' argument and result types need it.       *)
(* A value is [t, n, b]: null, a small unsigned integer n, a byte string   *)
(* b, or a one-entry map {0: b} / {0: null} as minicbor derives for a      *)
(* struct with one #[n(0)] field.                                          *)
(***************************************************************************)
VNull == [t |-> "null", n |-> 0, b |-> <<>>]
VUint(n) == [t |-> "uint", n |-> n, b |-> <<>>]
VBstr(b) == [t |-> "bstr", n |-> 0, b |-> b]
VMapBstr(b) == [t |-> "map0bstr", n |-> 0, b |-> b]
VMapNull == [t |-> "map0null", n |-> 0, b |-> <<>>]
\* A value of a user type whose Encode implementation reports an error.
VUnencodable == [t |-> "unencodable", n |-> 0, b |-> <<>>]

DecodeErr == [ok |-> FALSE, v |-> VNull]
DecodeOk(v) == [ok |-> TRUE, v |-> v]

\* A byte string item at position i of data: header 0x40+len, then len bytes.
BstrAt(data, i) ==
    IF i > Len(data) THEN DecodeErr
    ELSE LET h == data[i] IN
         IF h < 64 \/ h > 87 THEN DecodeErr
         ELSE IF Len(data) < i + (h - 64) THEN DecodeErr
         ELSE DecodeOk(VBstr(SubSeq(data, i + 1, i + (h - 64))))

\* minicbor::decode::<ty>(data): one item from the front of data; bytes after
\* the item are not looked at.  An Identity is read as the byte string of
\* its bytes.
minicbor_decode(ty, data) ==
    IF Len(data) = 0 THEN DecodeErr
    ELSE LET h == data[1] IN
        CASE ty = "null" -> IF h = 246 THEN DecodeOk(VNull) ELSE DecodeErr
          [] ty = "uint" -> IF h <= 23 THEN DecodeOk(VUint(h)) ELSE DecodeErr
          [] ty = "bstr" -> BstrAt(data, 1)
          [] ty = "Identity" -> BstrAt(data, 1)
          [] ty = "map0bstr" ->
                IF h = 161 /\ Len(data) >= 2 /\ data[2] = 0
                THEN LET r == BstrAt(data, 3) IN
                     IF r.ok THEN DecodeOk(VMapBstr(r.v.b)) ELSE DecodeErr
                ELSE DecodeErr
          [] OTHER -> DecodeErr

EncodeErr == [ok |-> FALSE, bytes |-> <<>>]
EncodeOk(bytes) == [ok |-> TRUE, bytes |-> bytes]

\* minicbor::to_vec(v).
minicbor_to_vec(v) ==
    CASE v.t = "null" -> EncodeOk(<<246>>)
      [] v.t = "uint" -> EncodeOk(<<v.n>>)
      [] v.t = "bstr" -> EncodeOk(<<64 + Len(v.b)>> \o v.b)
      [] v.t = "map0bstr" -> EncodeOk(<<161, 0, 64 + Len(v.b)>> \o v.b)
      [] v.t = "map0null" -> EncodeOk(<<161, 0, 246>>)
      [] OTHER -> EncodeErr

(***************************************************************************)
(* The traits the macro is applied to.  A trait method is what              *)
(* Endpoint::new reads of a syn::TraitItemMethod: its name, asyncness, the *)
(* receiver's mutability, the types of the parameters after the receiver,  *)
(* the T of its Result<T, _> and its #[many(...)] attributes.              *)
(***************************************************************************)
TraitMethod(name, is_async, is_mut, params, ret, attrs) ==
    [name |-> name, is_async |-> is_async, is_mut |-> is_mut,
     params |-> params, ret |-> ret, attrs |-> attrs]

NoArg == "NoArg"

\* Endpoint::new that takes a first parameter of type Identity for the sender.
EndpointNewByType(m) ==
    [name |-> m.name, func |-> m.name,
     is_async |-> m.is_async, is_mut |-> m.is_mut,
     has_sender |-> Len(m.params) >= 1 /\ m.params[1] = "Identity",
     arg |-> IF Len(m.params) >= 2 THEN m.params[2]
             ELSE IF Len(m.params) = 1 /\ m.params[1] # "Identity" THEN m.params[1]
             ELSE NoArg,
     ret_type |-> m.ret,
     deny_anonymous |-> "deny_anonymous" \in m.attrs,
     check_webauthn |-> "check_webauthn" \in m.attrs]

\* Endpoint::new: the call shape comes from the number of typed parameters.
EndpointNew(m) ==
    [name |-> m.name, func |-> m.name,
     is_async |-> m.is_async, is_mut |-> m.is_mut,
     has_sender |-> Len(m.params) >= 2,
     arg |-> IF Len(m.params) >= 2 THEN m.params[2]
             ELSE IF Len(m.params) = 1 THEN m.params[1] ELSE NoArg,
     ret_type |-> m.ret,
     deny_anonymous |-> "deny_anonymous" \in m.attrs,
     check_webauthn |-> "check_webauthn" \in m.attrs]

\* #[many_module(name = KvStoreModule, id = 3, namespace = kvstore)]
KvStoreNamespace == <<"k","v","s","t","o","r","e">>
KvStoreAttributeId == 3
KvStoreTrait ==
    [name |-> "KvStoreModule", id |-> KvStoreAttributeId,
     namespace |-> KvStoreNamespace,
     methods |-> <<
        TraitMethod(<<"i","n","f","o">>, FALSE, FALSE,
                    <<"Identity", "null">>, "map0bstr", {}),
        TraitMethod(<<"g","e","t">>, FALSE, FALSE,
                    <<"Identity", "map0bstr">>, "map0opt", {}) >>]

\* A trait without namespace that uses every feature of the macro: the two
\* policy attributes, &mut self, async, and the three parameter shapes, one
\* of them with an Identity as the only parameter.
SampleTrait ==
    [name |-> "SampleModule", id |-> 0,
     namespace |-> NoNamespace,
     methods |-> <<
        TraitMethod(<<"s","e","t","_","v","a","l","u","e">>, FALSE, TRUE,
                    <<"Identity", "bstr">>, "null", {"deny_anonymous"}),
        TraitMethod(<<"a","p","p","r","o","v","e">>, TRUE, TRUE,
                    <<"Identity", "uint">>, "uint",
                    {"deny_anonymous", "check_webauthn"}),
        TraitMethod(<<"l","o","o","k","u","p">>, TRUE, FALSE,
                    <<"bstr">>, "bstr", {"check_webauthn"}),
        TraitMethod(<<"s","t","a","t","u","s">>, FALSE, FALSE,
                    <<>>, "custom", {}),
        TraitMethod(<<"w","h","o","a","m","i">>, FALSE, FALSE,
                    <<"Identity">>, "null", {}) >>]

Traits == {KvStoreTrait, SampleTrait}

\* many_module_impl: the endpoints of a trait, in declaration order.
Endpoints(tr) == [i \in 1..Len(tr.methods) |-> EndpointNew(tr.methods[i])]

\* many_module_impl: ManyModuleInfo.endpoints.
endpoint_strings(tr) ==
    {EndpointName(tr.namespace, Endpoints(tr)[i]) : i \in 1..Len(tr.methods)}

\* The match on the method string: the index of the first arm whose pattern
\* is the method, 0 for the wildcard arm.
MatchArm(tr, method) ==
    LET hits == {i \in 1..Len(tr.methods) :
                    EndpointName(tr.namespace, Endpoints(tr)[i]) = method}
    IN IF hits = {} THEN 0 ELSE CHOOSE i \in hits : \A j \in hits : i <= j

(***************************************************************************)
(* Requests, envelopes, responses and errors.                              *)
(***************************************************************************)
\* RequestMessage: the fields validate and execute read.
Request(method, from, to, data, id) ==
    [method |-> method, from |-> from, to |-> to, data |-> data, id |-> id]

NoRequest == Request(<<>>, NoIdentity, Anonymous, <<>>, NoId)

\* coset::Label
LabelText(s) == [kind |-> "Text", text |-> s, int |-> 0]
LabelInt(n) == [kind |-> "Int", text |-> "", int |-> n]

\* envelope.protected.header.rest: Vec<(Label, Value)>
NoEnvelope == <<>>
Envelopes ==
    { <<>>,
      << <<LabelText("webauthn"), TRUE>> >>,
      << <<LabelText("webauthn"), FALSE>> >>,
      << <<LabelText("other"), TRUE>> >>,
      << <<LabelInt(1), TRUE>>, <<LabelText("other"), FALSE>> >> }

\* BTreeMap::from_iter(rest): each key with the value of its last occurrence.
BTreeMapFromIter(rest) ==
    LET keys == {rest[i][1] : i \in 1..Len(rest)}
        last(k) == CHOOSE i \in 1..Len(rest) :
                      /\ rest[i][1] = k
                      /\ \A j \in 1..Len(rest) : rest[j][1] = k => j <= i
    IN [k \in keys |-> rest[last(k)][2]]

contains_key(map, k) == k \in DOMAIN map

\* ResponseMessage: the fields from_request sets.
Response(from, to, data, id) ==
    [from |-> from, to |-> to, data |-> data, id |-> id]

NoResponse == Response(Anonymous, NoIdentity, <<>>, NoId)

\* ResponseMessage::from_request(request, from, data)
from_request(request, from, data) ==
    Response(from, request.from, data, request.id)

\* Result<_, ManyError> and a panic, as the outcome of a call.
NoOutcome == [kind |-> "none", err |-> "", resp |-> NoResponse]
Ok(resp) == [kind |-> "ok", err |-> "", resp |-> resp]
Err(e) == [kind |-> "err", err |-> e, resp |-> NoResponse]
Panic(what) == [kind |-> "panic", err |-> what, resp |-> NoResponse]

\* What a backend method does when called: it returns Ok(v) or Err(e), or panics.
NoReturn == [kind |-> "none", v |-> VNull]
RetOk(v) == [kind |-> "ok", v |-> v]
RetErr == [kind |-> "err", v |-> VNull]
RetPanic == [kind |-> "panic", v |-> VNull]

\* The values of a result type.
RetValues(ty) ==
    CASE ty = "null" -> {VNull}
      [] ty = "uint" -> {VUint(5)}
      [] ty = "bstr" -> {VBstr(<<7>>)}
      [] ty = "map0bstr" -> {VMapBstr(<<9, 9>>)}
      [] ty = "map0opt" -> {VMapBstr(<<1>>), VMapNull}
      [] OTHER -> {VUint(1), VUnencodable}

ResultTypes == {"null", "uint", "bstr", "map0bstr", "map0opt", "custom"}
AllReturns ==
    {RetOk(v) : v \in UNION {RetValues(ty) : ty \in ResultTypes}} \cup {RetErr, RetPanic}

BackendReturns(e) == {RetOk(v) : v \in RetValues(e.ret_type)} \cup {RetErr, RetPanic}

(***************************************************************************)
(* validate, as generated (lib.rs 261-306 and 437-452).                    *)
(***************************************************************************)
Pass == "Pass"

\* #check_anonymous
check_anonymous(e, message) ==
    IF e.deny_anonymous /\ is_anonymous(unwrap_or_default(message.from))
    THEN "SenderCannotBeAnonymous"
    ELSE Pass

\* check_webauthn with the label's value required to be true.
check_webauthn_value(e, envelope) ==
    IF e.check_webauthn
       /\ ~(/\ contains_key(BTreeMapFromIter(envelope), LabelText("webauthn"))
            /\ BTreeMapFromIter(envelope)[LabelText("webauthn")] = TRUE)
    THEN "NonWebAuthnRequestDenied"
    ELSE Pass

\* #check_webauthn
check_webauthn(e, envelope) ==
    IF e.check_webauthn
       /\ ~contains_key(BTreeMapFromIter(envelope), LabelText("webauthn"))
    THEN "NonWebAuthnRequestDenied"
    ELSE Pass

\* #check_ty
check_ty(e, data) ==
    IF e.arg # NoArg /\ ~minicbor_decode(e.arg, data).ok
    THEN "DeserializationError"
    ELSE Pass

\* An arm that looks at the label before it looks at the sender.
validate_webauthn_first(e, message, envelope) ==
    IF check_webauthn(e, envelope) # Pass THEN check_webauthn(e, envelope)
    ELSE IF check_anonymous(e, message) # Pass THEN check_anonymous(e, message)
    ELSE check_ty(e, message.data)

\* One arm of validate's match: the three checks in the order of the arm.
validate_endpoint_pat(e, message, envelope) ==
    IF check_anonymous(e, message) # Pass THEN check_anonymous(e, message)
    ELSE IF check_webauthn(e, envelope) # Pass THEN check_webauthn(e, envelope)
    ELSE check_ty(e, message.data)

\* fn validate(&self, message, envelope) -> Result<(), ManyError>
validate(tr, message, envelope) ==
    LET arm == MatchArm(tr, message.method) IN
    IF arm = 0 THEN Err("UnknownMethod")
    ELSE LET r == validate_endpoint_pat(Endpoints(tr)[arm], message, envelope) IN
         IF r = Pass THEN Ok(NoResponse) ELSE Err(r)

(***************************************************************************)
(* The state of a caller and of the module.                                *)
(***************************************************************************)
Tasks == 1..NTasks
NoHolder == 0

VNone == [t |-> "none", n |-> 0, b |-> <<>>]
NoSender == "NoSender"
BackendCall(func, sender, arg) == [func |-> func, sender |-> sender, arg |-> arg]

IdleTask ==
    [pc |-> "idle", op |-> "none", message |-> NoRequest, envelope |-> NoEnvelope,
     arm |-> 0, calls |-> <<>>, awaits |-> 0, ret |-> NoReturn, out |-> NoOutcome]

\* The endpoint whose arm a running execute is in.
EndpointOf(t) == Endpoints(module)[task[t].arm]

ModuleVars == <<module, mutex, backend, task>>

(***************************************************************************)
(* validate is one synchronous call: it reads the message and the          *)
(* envelope, and nothing of the module.                                    *)
(***************************************************************************)
\* validate that tries the call on the backend once its checks have passed.
ValidateCallingBackend(t, message, envelope) ==
    /\ task[t].pc = "idle"
    /\ task' = [task EXCEPT ![t] =
                  [IdleTask EXCEPT !.pc = "done", !.op = "validate",
                                   !.message = message, !.envelope = envelope,
                                   !.arm = MatchArm(module, message.method),
                                   !.out = validate(module, message, envelope)]]
    /\ backend' = IF validate(module, message, envelope).kind = "ok"
                  THEN backend + 1 ELSE backend
    /\ UNCHANGED <<module, mutex, cli>>

Validate(t, message, envelope) ==
    /\ task[t].pc = "idle"
    /\ task' = [task EXCEPT ![t] =
                  [IdleTask EXCEPT !.pc = "done", !.op = "validate",
                                   !.message = message, !.envelope = envelope,
                                   !.arm = MatchArm(module, message.method),
                                   !.out = validate(module, message, envelope)]]
    /\ UNCHANGED <<module, mutex, backend, cli>>

(***************************************************************************)
(* execute, as generated (lib.rs 308-354 and 456-482), in the steps at     *)
(* which other callers can be observed: the match, the lock, the           *)
(* evaluation of the arguments and the call, the backend's return.         *)
(***************************************************************************)
\* Executes that will still call the backend, plus the calls made.
CallsCommitted ==
    backend + Cardinality({t \in Tasks : task[t].pc \in {"lock", "locked"}})

\* let result = match message.method.as_str() { ... _ => Err(internal_server_error()) }?;
ExecuteBegin(t, message) ==
    /\ task[t].pc = "idle"
    /\ CallsCommitted < MaxCalls
    /\ LET arm == MatchArm(module, message.method) IN
       task' = [task EXCEPT ![t] =
                  IF arm = 0
                  THEN [IdleTask EXCEPT !.pc = "done", !.op = "execute",
                                        !.message = message,
                                        !.out = Err("InternalServerError")]
                  ELSE [IdleTask EXCEPT !.pc = "lock", !.op = "execute",
                                        !.message = message, !.arm = arm]]
    /\ UNCHANGED <<module, mutex, backend, cli>>

\* let backend = self.backend.lock().unwrap();  A poisoned mutex makes lock()
\* return Err(PoisonError) and unwrap() panic; the guard inside the error is
\* dropped by the unwinding.
Lock(t) ==
    /\ task[t].pc = "lock"
    /\ mutex.holder = NoHolder
    /\ IF mutex.poisoned
       THEN /\ task' = [task EXCEPT ![t].pc = "done",
                                    ![t].out = Panic("PoisonError")]
            /\ UNCHANGED mutex
       ELSE /\ mutex' = [mutex EXCEPT !.holder = t]
            /\ task' = [task EXCEPT ![t].pc = "locked"]
    /\ UNCHANGED <<module, backend, cli>>

\* A decode in execute that takes empty data for a null.
decode_or_null(ty, data) ==
    IF Len(data) = 0 THEN DecodeOk(VNull) ELSE minicbor_decode(ty, data)

\* fn decode(data) in execute.
decode(ty, data) == minicbor_decode(ty, data)

\* The call with the request's recipient passed as the sender.
CallOfRecipient(e, message) ==
    BackendCall(e.func,
                IF e.has_sender THEN message.to ELSE NoSender,
                IF e.arg # NoArg THEN decode(e.arg, message.data).v ELSE VNone)

\* The arguments of the call, by (has_sender, arg.is_some()).
CallOf(e, message) ==
    BackendCall(e.func,
                IF e.has_sender THEN unwrap_or_default(message.from) ELSE NoSender,
                IF e.arg # NoArg THEN decode(e.arg, message.data).v ELSE VNone)

\* Call with the guard kept when the decode error returns.
CallKeepingGuard(t) ==
    /\ task[t].pc = "locked"
    /\ LET e == EndpointOf(t)
           m == task[t].message
       IN IF e.arg # NoArg /\ ~decode(e.arg, m.data).ok
          THEN /\ task' = [task EXCEPT ![t].pc = "done",
                                       ![t].out = Err("DeserializationError")]
               /\ UNCHANGED <<mutex, backend>>
          ELSE /\ task' = [task EXCEPT ![t].pc = "backend",
                                       ![t].calls = Append(@, CallOf(e, m))]
               /\ backend' = backend + 1
               /\ UNCHANGED mutex
    /\ UNCHANGED <<module, cli>>

\* backend.#ep_ident(sender?, decode(data)?): the arguments are evaluated
\* under the lock; a decode error returns through `?` and drops the guard.
Call(t) ==
    /\ task[t].pc = "locked"
    /\ LET e == EndpointOf(t)
           m == task[t].message
       IN IF e.arg # NoArg /\ ~decode(e.arg, m.data).ok
          THEN /\ task' = [task EXCEPT ![t].pc = "done",
                                       ![t].out = Err("DeserializationError")]
               /\ mutex' = [mutex EXCEPT !.holder = NoHolder]
               /\ UNCHANGED backend
          ELSE /\ task' = [task EXCEPT ![t].pc = "backend",
                                       ![t].calls = Append(@, CallOf(e, m))]
               /\ backend' = backend + 1
               /\ UNCHANGED mutex
    /\ UNCHANGED <<module, cli>>

\* fn encode(result) in execute: minicbor::to_vec(result?) with the error of
\* to_vec mapped to serialization_error.
encode(ret) ==
    IF ret.kind = "err" THEN [ok |-> FALSE, err |-> "BackendError", bytes |-> <<>>]
    ELSE IF minicbor_to_vec(ret.v).ok
         THEN [ok |-> TRUE, err |-> "", bytes |-> minicbor_to_vec(ret.v).bytes]
         ELSE [ok |-> FALSE, err |-> "SerializationError", bytes |-> <<>>]

\* What execute returns once the backend method has returned r: the `?` on
\* the match, then Ok(ResponseMessage::from_request(&message, &message.to, Ok(result))).
ExecuteResult(message, r) ==
    IF encode(r).ok
    THEN Ok(from_request(message, message.to, encode(r).bytes))
    ELSE Err(encode(r).err)

\* The backend method returns (the guard is dropped at the end of the arm)
\* or panics (the guard is dropped by the unwinding, which poisons the mutex).
BackendReturn(t, r) ==
    /\ task[t].pc = "backend"
    /\ r \in BackendReturns(EndpointOf(t))
    /\ task' = [task EXCEPT ![t].pc = "done",
                            ![t].ret = r,
                            ![t].out = IF r.kind = "panic"
                                       THEN Panic("backend")
                                       ELSE ExecuteResult(task[t].message, r)]
    /\ mutex' = [holder |-> NoHolder,
                 poisoned |-> mutex.poisoned \/ r.kind = "panic"]
    /\ UNCHANGED <<module, backend, cli>>

\* The futures of execute on one cooperative executor thread: a task keeps
\* the thread from its first poll until it suspends in an await or completes;
\* std::sync::Mutex::lock blocks the thread it is called on.
OnThread(t) == task[t].pc \in {"lock", "locked", "backend"}
ThreadFree(t) == \A u \in Tasks \ {t} : ~OnThread(u)

\* backend.#ep_ident(...).await: the async backend method returns Pending;
\* the future of execute is suspended with the guard alive in it.
Suspend(t) ==
    /\ task[t].pc = "backend"
    /\ EndpointOf(t).is_async
    /\ task[t].awaits < MaxAwaits
    /\ task' = [task EXCEPT ![t].pc = "suspended", ![t].awaits = @ + 1]
    /\ UNCHANGED <<module, mutex, backend, cli>>

\* The executor polls the woken future again.
Resume(t) ==
    /\ task[t].pc = "suspended"
    /\ task' = [task EXCEPT ![t].pc = "backend"]
    /\ UNCHANGED <<module, mutex, backend, cli>>

\* The caller takes the result; the task is free for the next call.
Return(t) ==
    /\ task[t].pc = "done"
    /\ task' = [task EXCEPT ![t] = IdleTask]
    /\ UNCHANGED <<module, mutex, backend, cli>>

(***************************************************************************)
(* The requests the callers send.                                          *)
(***************************************************************************)
Methods ==
    UNION {endpoint_strings(tr) : tr \in Traits}
    \cup { <<"s","e","t","_","v","a","l","u","e">>, <<"i","n","f","o">> }

Senders == {NoIdentity, Anonymous, "alice"}

\* null, 5, h'07', a byte string cut short, {0: h'07'}, and no data at all.
Datas == { <<>>, <<246>>, <<5>>, <<65, 7>>, <<65>>, <<161, 0, 65, 7>> }

Requests ==
    {Request(m, f, to, d, id) :
        m \in Methods, f \in Senders, to \in Identities, d \in Datas, id \in OptIds}

\* The requests of the concurrent callers: the sender, the recipient and the id
\* play no part in the locking; of the data, two values of which each
\* endpoint with an argument decodes at most one.
ConcRequests ==
    {Request(m, "alice", ServerIdentity, d, NoId) :
        m \in endpoint_strings(module) \cup { <<"i","n","f","o">> },
        d \in IF module = KvStoreTrait THEN { <<246>>, <<5>> }
                                       ELSE { <<5>>, <<65, 7>> }}


(***************************************************************************)
(* The command line client (many-cli/src/main.rs): message() sends the     *)
(* request and show_response handles the response, polling async.status    *)
(* when the response is asynchronous.                                      *)
(***************************************************************************)
\* for _ in 0..60
PollBudget == 60

NoToken == "NoToken"
Tokens == {"T1", "T2"}

\* ResponseMessage as show_response reads it: data is Err(_) or Ok(payload),
\* attributes hold an AsyncAttribute{token} or none.
CliResponse(err, payload, token) == [err |-> err, payload |-> payload, token |-> token]
NoCliResponse == CliResponse(FALSE, <<>>, NoToken)

\* 5, a byte string cut short (not CBOR), and the empty payload.
Payloads == { <<>>, <<5>>, <<65>> }

CliResponses ==
    {CliResponse(FALSE, p, k) : p \in Payloads, k \in Tokens \cup {NoToken}}
    \cup {CliResponse(TRUE, <<>>, NoToken)}

\* cbor_diag::parse_bytes(payload) is Ok: the payload is one CBOR item.
IsCbor(payload) ==
    \E ty \in {"null", "uint", "bstr", "map0bstr"} :
        /\ minicbor_decode(ty, payload).ok
        /\ minicbor_to_vec(minicbor_decode(ty, payload).v).bytes = payload

\* StatusReturn, and the failure of the async.status call itself.
Statuses == {"Unknown", "Queued", "Processing", "Done", "Expired", "CallError"}

\* No async.status call has been answered yet.
NoStatus == "None"

NothingShown == <<"nothing">>
NoExit == [kind |-> "none", code |-> 0]
\* main: Ok(()) ends the process with 0, Err(_) with std::process::exit(1),
\* a panic with the runtime's 101.
ExitOk == [kind |-> "ok", code |-> 0]
ExitErr == [kind |-> "err", code |-> 1]
ExitPanic == [kind |-> "panic", code |-> 101]
\* std::process::exit(2), and clap's exit on a command line it rejects.
ExitUsage == [kind |-> "err", code |-> 2]

\* The command line, as far as main's match reads it.  What the library
\* parsers make of an argument is part of the input.
NoOpt == [kind |-> "none"]
UsageError == [kind |-> "Usage"]

\* IdOpt: arg and subid.  hex: hex::decode(arg) is Ok; bytes_identity:
\* Identity::try_from(bytes) is Ok; text_identity: Identity::try_from(arg) is
\* Ok; file: read_to_string(arg) is Ok; pem: from_pem(content) is Ok; subid
\* is absent, accepted or rejected by with_subresource_id.
IdOpt(hex, bytes_identity, text_identity, file, pem, subid) ==
    [kind |-> "Id", hex |-> hex, bytes_identity |-> bytes_identity,
     text_identity |-> text_identity, file |-> file, pem |-> pem, subid |-> subid]

IdOpts ==
    {IdOpt(a[1], a[2], a[3], a[4], a[5], subid) :
        a \in { <<TRUE, TRUE, FALSE, FALSE, FALSE>>,
                <<TRUE, FALSE, FALSE, FALSE, FALSE>>,
                <<FALSE, FALSE, TRUE, FALSE, FALSE>>,
                <<FALSE, FALSE, FALSE, TRUE, TRUE>>,
                <<FALSE, FALSE, FALSE, TRUE, FALSE>>,
                <<FALSE, FALSE, FALSE, FALSE, FALSE>> },
        subid \in {"none", "ok", "bad"}}

\* MessageOpt without the HSM options: pem, data and from_hex are absent,
\* well-formed or malformed; server, method, hex and base64 are given or not.
MessageOpt(pem, data, server, from_hex, method, hex, base64, async) ==
    [kind |-> "Message", pem |-> pem, data |-> data, server |-> server,
     from_hex |-> from_hex, method |-> method, hex |-> hex, base64 |-> base64,
     async |-> async]

MessageOpts ==
    {MessageOpt("none", "ok", TRUE, "none", TRUE, FALSE, FALSE, a) : a \in BOOLEAN}
    \cup
    { MessageOpt("ok", "none", TRUE, "ok", FALSE, FALSE, FALSE, FALSE),
      MessageOpt("none", "none", TRUE, "bad", FALSE, FALSE, FALSE, FALSE),
      MessageOpt("bad", "ok", TRUE, "none", TRUE, FALSE, FALSE, FALSE),
      MessageOpt("none", "bad", TRUE, "none", TRUE, FALSE, FALSE, FALSE),
      MessageOpt("none", "ok", TRUE, "none", FALSE, FALSE, FALSE, FALSE),
      MessageOpt("none", "ok", FALSE, "none", TRUE, TRUE, FALSE, FALSE),
      MessageOpt("none", "ok", FALSE, "none", TRUE, FALSE, TRUE, FALSE),
      MessageOpt("none", "ok", FALSE, "none", TRUE, FALSE, FALSE, FALSE),
      MessageOpt("none", "ok", FALSE, "none", FALSE, TRUE, FALSE, FALSE) }

\* GetTokenIdOpt and the server it names: the first step of the arm that
\* fails, if any.  status: client.status() is an error; no_ledger: the
\* ledger attribute is missing; call: the ledger.info call fails;
\* server_error: its response data is an error; not_cbor: the data does not
\* decode; symbol: no local name is the symbol.
GetTokenIdOpt(fail) == [kind |-> "GetTokenId", fail |-> fail]
GetTokenIdOpts ==
    {GetTokenIdOpt(f) :
        f \in {"none", "status", "no_ledger", "call", "server_error", "not_cbor", "symbol"}}

OffCli ==
    [pc |-> "off", async |-> FALSE, resp |-> NoCliResponse, token |-> NoToken,
     i |-> 0, attempts |-> 0, done |-> {}, repolled |-> FALSE,
     seenDone |-> FALSE, first |-> NoCliResponse, status |-> NoStatus,
     opt |-> NoOpt, callFailed |-> FALSE,
     shown |-> NothingShown, out |-> NoExit]

\* The process ends.
Exit(c, out) == [c EXCEPT !.pc = "exit", !.out = out]

\* message(): client.call_raw(method, &data)?, then show_response.
CliCall(response, failed) ==
    /\ cli.pc = "call"
    /\ cli' = IF failed THEN Exit([cli EXCEPT !.callFailed = TRUE], ExitErr)
              ELSE [cli EXCEPT !.pc = "show", !.resp = response]
    /\ UNCHANGED ModuleVars

\* show_response that polls whether or not --async was given.
ShowResponsePolling ==
    /\ cli.pc = "show"
    /\ cli' =
         IF cli.resp.err THEN Exit(cli, ExitErr)
         ELSE IF Len(cli.resp.payload) = 0
         THEN IF cli.resp.token = NoToken THEN Exit(cli, ExitPanic)
              ELSE [cli EXCEPT !.pc = "poll", !.token = cli.resp.token, !.i = 0]
         ELSE IF IsCbor(cli.resp.payload)
              THEN Exit([cli EXCEPT !.shown = cli.resp.payload], ExitOk)
              ELSE Exit(cli, ExitPanic)
    /\ UNCHANGED ModuleVars

\* show_response up to its first call of the server (lines 182-204 and 233-240).
ShowResponse ==
    /\ cli.pc = "show"
    /\ cli' =
         IF cli.resp.err THEN Exit(cli, ExitErr)
         ELSE IF Len(cli.resp.payload) = 0
         THEN IF cli.resp.token = NoToken THEN Exit(cli, ExitPanic)
              ELSE IF ~cli.async
                   THEN [cli EXCEPT !.pc = "poll", !.token = cli.resp.token, !.i = 0]
                   ELSE Exit([cli EXCEPT !.token = cli.resp.token], ExitOk)
         ELSE IF IsCbor(cli.resp.payload)
              THEN Exit([cli EXCEPT !.shown = cli.resp.payload], ExitOk)
              ELSE Exit(cli, ExitPanic)
    /\ UNCHANGED ModuleVars

\* The count of async.status calls, kept up to one past the budget.
CountAttempt(n) == IF n <= PollBudget THEN n + 1 ELSE n

\* One turn of the loop (lines 208-231): the call of async.status and the
\* match on the status; inner is the response a Done status carries.
Poll(status, inner) ==
    /\ cli.pc = "poll"
    /\ cli.i < PollBudget
    /\ LET c == [cli EXCEPT !.attempts = CountAttempt(@),
                            !.status = status,
                            !.repolled = @ \/ cli.token \in cli.done]
       IN cli' =
            CASE status = "CallError" -> Exit(c, ExitErr)
              [] status = "Done" ->
                    [c EXCEPT !.pc = "show", !.resp = inner,
                              !.done = @ \cup {cli.token},
                              !.seenDone = TRUE,
                              !.first = IF cli.seenDone THEN @ ELSE inner]
              [] status = "Expired" -> Exit(c, ExitOk)
              [] OTHER ->
                    IF cli.i + 1 < PollBudget
                    THEN [c EXCEPT !.i = cli.i + 1]
                    ELSE Exit([c EXCEPT !.i = cli.i + 1], ExitOk)
    /\ UNCHANGED ModuleVars

\* Opts::parse() rejects the command line.
UsageExit ==
    /\ cli.pc = "main"
    /\ cli' = Exit([cli EXCEPT !.opt = UsageError], ExitUsage)
    /\ UNCHANGED ModuleVars

\* main, SubCommand::Id (lines 294-331).
IdCommand(o) ==
    /\ cli.pc = "main"
    /\ LET subid == IF o.subid = "bad" THEN ExitPanic ELSE ExitOk
       IN cli' = Exit([cli EXCEPT !.opt = o],
                      IF o.hex
                      THEN IF o.bytes_identity THEN subid ELSE ExitErr
                      ELSE IF o.text_identity THEN subid
                      ELSE IF o.file
                           THEN IF o.pem THEN subid ELSE ExitPanic
                           ELSE ExitUsage)
    /\ UNCHANGED ModuleVars

\* main, SubCommand::Message (lines 357-441), up to the call of the server;
\* message_from_hex up to send_envelope.
MessageCommand(o) ==
    /\ cli.pc = "main"
    /\ LET c == [cli EXCEPT !.opt = o, !.async = o.async]
       IN cli' =
            IF o.pem = "bad" \/ o.data = "bad" THEN Exit(c, ExitPanic)
            ELSE IF o.server
            THEN IF o.from_hex # "none"
                 THEN IF o.from_hex = "bad" THEN Exit(c, ExitErr)
                      ELSE [c EXCEPT !.pc = "call"]
                 ELSE IF o.method THEN [c EXCEPT !.pc = "call"]
                      ELSE Exit(c, ExitPanic)
            ELSE IF o.method /\ (o.hex \/ o.base64) THEN Exit(c, ExitOk)
                 ELSE Exit(c, ExitPanic)
    /\ UNCHANGED ModuleVars

\* main, SubCommand::GetTokenId (lines 455-488).
GetTokenIdCommand(o) ==
    /\ cli.pc = "main"
    /\ cli' = Exit([cli EXCEPT !.opt = o],
                   CASE o.fail = "none" -> ExitOk
                     [] o.fail = "no_ledger" -> ExitErr
                     [] OTHER -> ExitPanic)
    /\ UNCHANGED ModuleVars

(***************************************************************************)
(* The specifications.                                                     *)
(***************************************************************************)
\* Module::new(backend): nobody holds the mutex, no call is running.
Init ==
    /\ module \in Traits
    /\ mutex = [holder |-> NoHolder, poisoned |-> FALSE]
    /\ backend = 0
    /\ task = [t \in Tasks |-> IdleTask]
    /\ cli = OffCli

\* One caller: every sequence of validate and execute calls.
Next ==
    \/ \E message \in Requests, envelope \in Envelopes : Validate(1, message, envelope)
    \/ \E message \in Requests : ExecuteBegin(1, message)
    \/ Lock(1)
    \/ Call(1)
    \/ \E r \in AllReturns : BackendReturn(1, r)
    \/ Return(1)

Spec == Init /\ [][Next]_vars

\* Several callers of execute at once, each a thread of its own.
NextConc ==
    \E t \in Tasks :
        \/ \E message \in ConcRequests : ExecuteBegin(t, message)
        \/ Lock(t)
        \/ Call(t)
        \/ \E r \in AllReturns : BackendReturn(t, r)
        \/ Return(t)

SpecConc == Init /\ [][NextConc]_vars

\* Several executes as tasks of one cooperative executor thread.
NextExec ==
    \E t \in Tasks :
        \/ \E message \in ConcRequests : ThreadFree(t) /\ ExecuteBegin(t, message)
        \/ ThreadFree(t) /\ Lock(t)
        \/ ThreadFree(t) /\ Call(t)
        \/ ThreadFree(t) /\ Suspend(t)
        \/ ThreadFree(t) /\ Resume(t)
        \/ \E r \in AllReturns : ThreadFree(t) /\ BackendReturn(t, r)
        \/ Return(t)

\* What the executor and the backend owe a started execute: it is polled
\* when the thread is free, and its backend method returns.
Progress(t) ==
    /\ ThreadFree(t)
    /\ \/ Lock(t)
       \/ Call(t)
       \/ Resume(t)
       \/ \E r \in AllReturns : BackendReturn(t, r)

SpecExec ==
    Init /\ [][NextExec]_vars /\ \A t \in Tasks : WF_vars(Progress(t))

\* The client is started; the server module is idle.
InitCli ==
    /\ module = KvStoreTrait
    /\ mutex = [holder |-> NoHolder, poisoned |-> FALSE]
    /\ backend = 0
    /\ task = [t \in Tasks |-> IdleTask]
    /\ cli = [OffCli EXCEPT !.pc = "main"]

NextCli ==
    \/ UsageExit
    \/ \E o \in IdOpts : IdCommand(o)
    \/ \E o \in MessageOpts : MessageCommand(o)
    \/ \E o \in GetTokenIdOpts : GetTokenIdCommand(o)
    \/ \E response \in CliResponses, failed \in BOOLEAN : CliCall(response, failed)
    \/ ShowResponse
    \/ \E status \in Statuses, inner \in CliResponses : Poll(status, inner)

SpecCli == InitCli /\ [][NextCli]_vars

(***************************************************************************)
(* Properties of the dispatcher.                                           *)
(***************************************************************************)
\* What the trait declares for the endpoint a call was routed to.
Declared(t) == module.methods[task[t].arm]
Routed(t) == task[t].op # "none" /\ task[t].arm # 0
AnonymousSender(t) == task[t].message.from \in {NoIdentity, Anonymous}
HasWebauthnLabel(envelope) ==
    \E i \in 1..Len(envelope) : envelope[i][1] = LabelText("webauthn")

\* C1: a request from an anonymous sender to an endpoint declared with
\* deny_anonymous is rejected with SenderCannotBeAnonymous and never makes a
\* backend call, whether it comes through validate or through execute.
C1_AnonymousNeverReachesBackend ==
    \A t \in Tasks :
        (Routed(t) /\ "deny_anonymous" \in Declared(t).attrs /\ AnonymousSender(t))
        => /\ task[t].calls = <<>>
           /\ task[t].pc # "backend"
           /\ task[t].pc = "done" => task[t].out = Err("SenderCannotBeAnonymous")

\* C2: a finished validate or execute fails with UnknownMethod exactly when
\* the method is not one of the names the module advertises, and such a call
\* made no backend call and never held the mutex.
C2_UnknownMethodRejected ==
    \A t \in Tasks :
        task[t].pc = "done" =>
            IF task[t].message.method \in endpoint_strings(module)
            THEN task[t].out # Err("UnknownMethod")
            ELSE /\ task[t].out = Err("UnknownMethod")
                 /\ task[t].calls = <<>>
                 /\ mutex.holder # t

\* C3 as stated: on an endpoint declared with check_webauthn, validate fails
\* with NonWebAuthnRequestDenied when the envelope has no "webauthn" label, and
\* never with that error when the label is there or the endpoint is not
\* declared with check_webauthn.
C3_WebauthnAsStated ==
    \A t \in Tasks :
        (Routed(t) /\ task[t].op = "validate" /\ task[t].pc = "done") =>
            IF "check_webauthn" \in Declared(t).attrs
               /\ ~HasWebauthnLabel(task[t].envelope)
            THEN task[t].out = Err("NonWebAuthnRequestDenied")
            ELSE task[t].out # Err("NonWebAuthnRequestDenied")

\* C3 amended: the same, except that an anonymous request to an endpoint that
\* is also declared with deny_anonymous has already been rejected with
\* SenderCannotBeAnonymous before the label is looked at.
C3_WebauthnAfterAnonymous ==
    \A t \in Tasks :
        (Routed(t) /\ task[t].op = "validate" /\ task[t].pc = "done") =>
            IF "check_webauthn" \in Declared(t).attrs
               /\ ~HasWebauthnLabel(task[t].envelope)
            THEN IF "deny_anonymous" \in Declared(t).attrs /\ AnonymousSender(t)
                 THEN task[t].out = Err("SenderCannotBeAnonymous")
                 ELSE task[t].out = Err("NonWebAuthnRequestDenied")
            ELSE task[t].out # Err("NonWebAuthnRequestDenied")

\* A named sender without the label is denied on an endpoint with both
\* attributes, and a label whose value is false admits the call.
C3_Witness ==
    /\ module = SampleTrait
    /\ \E t \in Tasks :
        /\ task[t].op = "validate" /\ task[t].pc = "done"
        /\ Routed(t)
        /\ Declared(t).attrs = {"deny_anonymous", "check_webauthn"}
        /\ task[t].message.from = "alice"
        /\ task[t].envelope = << <<LabelText("other"), TRUE>> >>
        /\ task[t].out = Err("NonWebAuthnRequestDenied")

\* C4: a step in which a validate call is made changes neither the backend
\* nor the mutex and records no backend call, whatever validate returns.
C4_ValidateHasNoEffect ==
    [][\A t \in Tasks :
          (task[t].pc = "idle" /\ task'[t].op = "validate")
          => /\ backend' = backend
             /\ mutex' = mutex
             /\ task'[t].calls = <<>>
             /\ task'[t].pc = "done"]_vars

\* validate has returned Ok on a module whose backend was called before and
\* whose mutex is poisoned.
C4_Witness ==
    \E t \in Tasks :
        /\ task[t].op = "validate" /\ task[t].pc = "done"
        /\ task[t].out.kind = "ok"
        /\ backend = 2
        /\ mutex.poisoned

\* C5: the response of a successful execute comes from the server's identity,
\* goes to the request's sender and carries the request's id.
C5_ResponseFromServer ==
    \A t \in Tasks :
        (task[t].op = "execute" /\ task[t].pc = "done" /\ task[t].out.kind = "ok")
        => /\ task[t].out.resp.from = ServerIdentity
           /\ task[t].out.resp.to = task[t].message.from
           /\ task[t].out.resp.id = task[t].message.id

\* C6: at most one execute is inside a backend method, the callers that
\* are between the lock and the end of the backend method are exactly the
\* holder of the mutex, and a call that has returned, or not yet locked,
\* does not hold it.
C6_MutualExclusion ==
    /\ Cardinality({t \in Tasks : task[t].pc = "backend"}) <= 1
    /\ \A t \in Tasks : task[t].pc \in {"locked", "backend"} => mutex.holder = t
    /\ \A t \in Tasks : task[t].pc \in {"idle", "lock", "done"} => mutex.holder # t

\* One execute has returned a decode error, having held the mutex, and
\* another is inside the backend while a third call waits or has failed to
\* encode its result.
C6_Witness ==
    \E t, u \in Tasks :
        /\ task[t].pc = "done" /\ task[t].op = "execute"
        /\ task[t].out \in {Err("DeserializationError"), Err("SerializationError"),
                            Err("BackendError")}
        /\ task[u].pc = "backend"
        /\ mutex.holder = u

\* C7: no execute ends in a panic: one whose backend method panicked returns
\* InternalServerError, and none fails on the lock afterwards.
C7_PanicCaught ==
    \A t \in Tasks :
        (task[t].op = "execute" /\ task[t].pc = "done")
        => /\ task[t].ret.kind = "panic" => task[t].out = Err("InternalServerError")
           /\ task[t].out.kind # "panic"

KvStoreInfo == <<"k","v","s","t","o","r","e",".","i","n","f","o">>
KvStoreGet == <<"k","v","s","t","o","r","e",".","g","e","t">>

ArgumentUndecodable(t) ==
    LET params == Declared(t).params IN
    /\ Len(params) > 0
    /\ ~minicbor_decode(params[Len(params)], task[t].message.data).ok

C17_ValidateOrder ==
    \A t \in Tasks :
        (task[t].op = "validate" /\ task[t].pc = "done") =>
            task[t].out =
                IF task[t].message.method \notin endpoint_strings(module)
                THEN Err("UnknownMethod")
                ELSE IF "deny_anonymous" \in Declared(t).attrs /\ AnonymousSender(t)
                THEN Err("SenderCannotBeAnonymous")
                ELSE IF "check_webauthn" \in Declared(t).attrs
                        /\ ~HasWebauthnLabel(task[t].envelope)
                THEN Err("NonWebAuthnRequestDenied")
                ELSE IF ArgumentUndecodable(t)
                THEN Err("DeserializationError")
                ELSE Ok(NoResponse)

\* An anonymous request without the label and with undecodable data, to an
\* endpoint with both attributes, is rejected for its sender.
C17_Witness ==
    /\ module = SampleTrait
    /\ \E t \in Tasks :
        /\ task[t].op = "validate" /\ task[t].pc = "done"
        /\ Routed(t)
        /\ Declared(t).attrs = {"deny_anonymous", "check_webauthn"}
        /\ task[t].message.from = NoIdentity
        /\ ~HasWebauthnLabel(task[t].envelope)
        /\ ArgumentUndecodable(t)
        /\ task[t].out = Err("SenderCannotBeAnonymous")

\* C19: the endpoint parsed from a method with two typed parameters has a
\* sender and the second parameter as argument, from one typed parameter the
\* parameter as argument and no sender, from none neither; so a parsed
\* endpoint with a sender has an argument, and every backend call made has
\* the shape of its method's parameter count.
C19_ShapeFromParameterCount ==
    /\ \A i \in 1..Len(module.methods) :
          LET m == module.methods[i]
              e == Endpoints(module)[i]
          IN /\ Len(m.params) = 2 => (e.has_sender /\ e.arg = m.params[2])
             /\ Len(m.params) = 1 => (~e.has_sender /\ e.arg = m.params[1])
             /\ Len(m.params) = 0 => (~e.has_sender /\ e.arg = NoArg)
             /\ e.has_sender => e.arg # NoArg
    /\ \A t \in Tasks : \A i \in 1..Len(task[t].calls) :
          LET c == task[t].calls[i]
              n == Len(Declared(t).params)
          IN /\ c.sender # NoSender => c.arg # VNone
             /\ n = 2 => (c.sender = unwrap_or_default(task[t].message.from)
                          /\ c.arg # VNone)
             /\ n = 1 => (c.sender = NoSender /\ c.arg # VNone)
             /\ n = 0 => (c.sender = NoSender /\ c.arg = VNone)

\* The method whose only parameter is an Identity was called with the
\* decoded data and without the sender.
C19_Witness ==
    /\ module = SampleTrait
    /\ \E t \in Tasks :
        /\ task[t].op = "execute" /\ task[t].pc = "done"
        /\ Routed(t)
        /\ Declared(t).params = <<"Identity">>
        /\ task[t].message.from = "alice"
        /\ task[t].calls = <<BackendCall(<<"w","h","o","a","m","i">>, NoSender, VBstr(<<7>>))>>
        /\ task[t].out.kind = "ok"

\* C18: every execute that has started eventually completes.
C18_ExecuteCompletes ==
    \A t \in Tasks :
        (task[t].pc \in {"lock", "locked", "backend", "suspended"})
            ~> (task[t].pc = "done")

(***************************************************************************)
(* Properties of the client.                                               *)
(***************************************************************************)
\* C9: the client makes at most 60 async.status calls.
C9_AtMostSixtyAttempts == cli.attempts <= PollBudget

\* C10: once a poll has returned Done, the token it was for is not polled
\* again, and the call ends as the inner response says: with an error when its
\* data is an error, else with its payload shown.
C10_DoneEndsTheCall ==
    cli.seenDone =>
        /\ ~cli.repolled
        /\ cli.pc = "exit" =>
              IF cli.first.err THEN cli.out = ExitErr
              ELSE cli.out = ExitOk /\ cli.shown = cli.first.payload

\* C11: when a poll has returned Expired the client call is over, without
\* another poll, and it has ended with an error.
C11_ExpiredIsAnError ==
    cli.status = "Expired" => (cli.pc = "exit" /\ cli.out = ExitErr)

\* C12: a client call that has used up the 60 turns of its polling loop
\* without a Done or an Expired status ends with an error.
C12_TimeoutIsAnError ==
    (cli.pc = "exit" /\ cli.i = PollBudget) => cli.out = ExitErr

\* C13: a client started with --async never calls async.status, and when the
\* response it received is asynchronous it has noted the token and ended
\* with success.
C13_AsyncFlagNeverPolls ==
    cli.async =>
        /\ cli.attempts = 0
        /\ cli.pc # "poll"
        /\ (cli.pc = "exit" /\ ~cli.resp.err /\ cli.resp.payload = <<>>
                /\ cli.resp.token # NoToken)
              => (cli.token = cli.resp.token /\ cli.out = ExitOk)

\* The client was started with --async and has ended on the token T2.
C13_Witness ==
    /\ cli.async
    /\ cli.pc = "exit"
    /\ cli.resp = CliResponse(FALSE, <<>>, "T2")
    /\ cli.token = "T2"
    /\ cli.out = ExitOk

\* An argument of the command line is malformed or cannot be resolved.
MalformedArgument ==
    \/ cli.opt.kind = "Usage"
    \/ /\ cli.opt.kind = "Id"
       /\ \/ cli.opt.hex /\ ~cli.opt.bytes_identity
          \/ ~cli.opt.hex /\ ~cli.opt.text_identity /\ ~(cli.opt.file /\ cli.opt.pem)
          \/ cli.opt.subid = "bad"
    \/ /\ cli.opt.kind = "Message"
       /\ "bad" \in {cli.opt.pem, cli.opt.data, cli.opt.from_hex}
    \/ /\ cli.opt.kind = "GetTokenId"
       /\ cli.opt.fail = "symbol"

\* The server answered with an error.
ServerReportedError ==
    \/ cli.resp.err
    \/ cli.opt.kind = "GetTokenId" /\ cli.opt.fail = "server_error"

\* Nothing went wrong: the arguments are well-formed, every call of the server
\* was answered without an error and with CBOR the client expects.
NothingFailed ==
    /\ ~MalformedArgument
    /\ ~ServerReportedError
    /\ ~cli.callFailed
    /\ cli.status \notin {"CallError", "Expired"}
    /\ cli.i < PollBudget
    /\ cli.opt.kind = "GetTokenId" => cli.opt.fail = "none"
    /\ cli.opt.kind = "Message" =>
          /\ cli.opt.server \/ (cli.opt.method /\ (cli.opt.hex \/ cli.opt.base64))
          /\ cli.opt.server => (cli.opt.method \/ cli.opt.from_hex = "ok")
          /\ cli.resp.payload = <<>> => cli.resp.token # NoToken \/ ~cli.opt.server
          /\ cli.resp.payload # <<>> => IsCbor(cli.resp.payload)

\* C14: a run of the client that has ended has not panicked; its exit code
\* is 2 when an argument is malformed, else 1 when the server reported an
\* error, and 0 when nothing failed.
C14_ExitCodes ==
    cli.pc = "exit" =>
        /\ cli.out.kind # "panic"
        /\ cli.out.code \in {0, 1, 2}
        /\ MalformedArgument => cli.out.code = 2
        /\ (~MalformedArgument /\ ServerReportedError) => cli.out.code = 1
        /\ NothingFailed => cli.out.code = 0

\* C16: show_response starts polling only for a successful response with an
\* empty payload and an AsyncAttribute, and a successful response with an
\* empty payload and no AsyncAttribute ends the call normally, without a
\* poll.
C16_AsyncNeedsAttribute ==
    [][cli.pc = "show" =>
          /\ cli'.pc = "poll" =>
                (~cli.resp.err /\ cli.resp.payload = <<>> /\ cli.resp.token # NoToken)
          /\ (~cli.resp.err /\ cli.resp.payload = <<>> /\ cli.resp.token = NoToken) =>
                (cli'.pc = "exit" /\ cli'.out = ExitOk /\ cli'.attempts = cli.attempts)]_vars

====
